---- MODULE Spec2Model ----
(***************************************************************************)
(* A model of main.py, the course subtitle merger: the natural sorter      *)
(* (sort_content), the subtitle cleaner (clean_subtitle) and the tree      *)
(* merger (merge_subtitles, write_output, main).                           *)
(*                                                                         *)
(* Text is a sequence of one-character strings, so that the regular        *)
(* expressions and the sort key are computed character by character as     *)
(* the code computes them.                                                 *)
(***************************************************************************)
EXTENDS Integers, Sequences, FiniteSets, TLC

VARIABLES
    fs,             \* the file system: [base, dirs, files]
    pc,             \* position of the run of main()
    console,        \* the lines printed so far
    written,        \* whether OUTPUT_FILE was written
    subdirs,        \* main: sort_content(BASE_FOLDER)
    paths,          \* merge_subtitles: its argument
    pathIdx,        \* merge_subtitles: position of `for path in paths`
    walk,           \* os.walk(path): directories still to be yielded
    root,           \* merge_subtitles: the directory os.walk yielded
    folder,         \* merge_subtitles: os.path.basename(root)
    sort_files,     \* merge_subtitles: sort_content(root)
    fileIdx,        \* merge_subtitles: position of `for file in sort_files`
    cleaned,        \* merge_subtitles: the last clean_subtitle(file_path)
    merged,         \* merge_subtitles: the blocks appended so far
    links,          \* merge_subtitles: the pending links buffer
    visited,        \* history: the directories os.walk yielded, in order
    content,        \* cleaner run: the text of the file
    cues,           \* cleaner run: the cues content was rendered from
    once,           \* cleaner run: the cleaner's output
    twice,          \* cleaner run: the cleaner applied to its own output
    listing,        \* sorter run: os.listdir of the directory
    ordered         \* sorter run: sort_content's result

vars == <<fs, pc, console, written, subdirs, paths, pathIdx, walk, root,
          folder, sort_files, fileIdx, cleaned, merged, links, visited,
          content, cues, once, twice, listing, ordered>>

mergeVars == <<fs, console, written, subdirs, paths, pathIdx, walk, root,
               folder, sort_files, fileIdx, cleaned, merged, links, visited>>

cleanVars == <<content, cues, once, twice>>

sortVars == <<listing, ordered>>

----------------------------------------------------------------------------
(* Bounds of the model.                                                    *)

\* entries of one course directory
MaxEntries == 3

\* pieces a raw subtitle text is assembled from
MaxPieces == 4

\* cues of a well-formed subtitle text
MaxCues == 2

\* caption lines of a cue
MaxLines == 2

\* names in the directory handed to the sorter run
MaxNames == 3

----------------------------------------------------------------------------
(* Characters.                                                             *)

DigitChars == <<"0", "1", "2", "3", "4", "5", "6", "7", "8", "9">>

UpperChars == <<"A", "B", "C", "D", "E", "F", "G", "H", "I", "J", "K", "L", "M",
                "N", "O", "P", "Q", "R", "S", "T", "U", "V", "W", "X", "Y", "Z">>

LowerChars == <<"a", "b", "c", "d", "e", "f", "g", "h", "i", "j", "k", "l", "m",
                "n", "o", "p", "q", "r", "s", "t", "u", "v", "w", "x", "y", "z">>

Range(s) == {s[i] : i \in DOMAIN s}

IndexOf(s, c) == CHOOSE i \in DOMAIN s : s[i] = c

\* str.isdigit / \d on one ASCII character
IsDigit(c) == c \in Range(DigitChars)

\* \s, and what str.strip() strips
IsSpace(c) == c \in {" ", "\n", "\t", "\r"}

\* the code point of a character, which str comparison goes by
Code(c) ==
    CASE c \in Range(DigitChars) -> 47 + IndexOf(DigitChars, c)
      [] c \in Range(UpperChars) -> 64 + IndexOf(UpperChars, c)
      [] c \in Range(LowerChars) -> 96 + IndexOf(LowerChars, c)
      [] c = "\t" -> 9
      [] c = "\n" -> 10
      [] c = "\r" -> 13
      [] c = " " -> 32
      [] c = "," -> 44
      [] c = "-" -> 45
      [] c = "." -> 46
      [] c = "/" -> 47
      [] c = ":" -> 58
      [] c = ">" -> 62

\* str.lower() on one character
LowerChar(c) ==
    IF c \in Range(UpperChars) THEN LowerChars[IndexOf(UpperChars, c)] ELSE c

Lower(s) == [i \in DOMAIN s |-> LowerChar(s[i])]

\* int() of a run of digits
RECURSIVE IntOf(_)
IntOf(s) ==
    IF s = <<>> THEN 0
    ELSE 10 * IntOf(SubSeq(s, 1, Len(s) - 1)) + (IndexOf(DigitChars, s[Len(s)]) - 1)

\* str < str: by code point, a proper prefix first
RECURSIVE StrLess(_, _)
StrLess(a, b) ==
    IF b = <<>> THEN FALSE
    ELSE IF a = <<>> THEN TRUE
    ELSE IF Code(a[1]) # Code(b[1]) THEN Code(a[1]) < Code(b[1])
    ELSE StrLess(Tail(a), Tail(b))

\* str.endswith
EndsWith(s, suffix) ==
    /\ Len(s) >= Len(suffix)
    /\ SubSeq(s, Len(s) - Len(suffix) + 1, Len(s)) = suffix

----------------------------------------------------------------------------
(* The natural sorter.                                                     *)

\* the end of the maximal run of digits (or of non-digits) that starts at i
RECURSIVE RunEnd(_, _, _)
RunEnd(s, i, digit) ==
    IF i + 1 <= Len(s) /\ IsDigit(s[i + 1]) = digit THEN RunEnd(s, i + 1, digit)
    ELSE i

\* re.split(r'(\d+)', x) from position i on; atDigits says a digit run is due
RECURSIVE SplitFrom(_, _, _)
SplitFrom(s, i, atDigits) ==
    IF i > Len(s) THEN (IF atDigits THEN <<>> ELSE <<<<>>>>)
    ELSE IF atDigits
    THEN LET e == RunEnd(s, i, TRUE)
         IN  <<SubSeq(s, i, e)>> \o SplitFrom(s, e + 1, FALSE)
    ELSE IF IsDigit(s[i]) THEN <<<<>>>> \o SplitFrom(s, i, TRUE)
    ELSE LET e == RunEnd(s, i, FALSE)
         IN  <<SubSeq(s, i, e)>> \o SplitFrom(s, e + 1, TRUE)

ReSplit(x) == SplitFrom(x, 1, FALSE)

\* part.isdigit(): non-empty and all digits
PartIsDigit(part) == part # <<>> /\ \A i \in DOMAIN part : IsDigit(part[i])

\* a mutant of Token: a digit run kept as text
TokenAsText(part) == [int |-> FALSE, num |-> 0, txt |-> Lower(part)]

\* int(part) if part.isdigit() else part.lower()
Token(part) ==
    IF PartIsDigit(part) THEN [int |-> TRUE, num |-> IntOf(part), txt |-> <<>>]
    ELSE [int |-> FALSE, num |-> 0, txt |-> Lower(part)]

\* the key of the lambda of sort_content
SortKey(x) == LET parts == ReSplit(x) IN [i \in DOMAIN parts |-> Token(parts[i])]

\* the tokens at one position are of one type: text at the odd positions of the
\* split, numbers at the even ones
TokLess(a, b) == IF a.int THEN a.num < b.num ELSE StrLess(a.txt, b.txt)

\* list < list: the first differing element decides, a proper prefix is smaller
RECURSIVE KeyLess(_, _)
KeyLess(a, b) ==
    IF b = <<>> THEN FALSE
    ELSE IF a = <<>> THEN TRUE
    ELSE IF a[1] # b[1] THEN TokLess(a[1], b[1])
    ELSE KeyLess(Tail(a), Tail(b))

\* x goes after every element whose key is not greater: sorted() is stable
RECURSIVE InsertByKey(_, _)
InsertByKey(s, x) ==
    IF s = <<>> THEN <<x>>
    ELSE IF KeyLess(SortKey(x), SortKey(s[1])) THEN <<x>> \o s
    ELSE <<s[1]>> \o InsertByKey(Tail(s), x)

\* a mutant of Sorted: the names are left in the order they were listed in
SortedAsListed(names) == names

\* sorted(names, key=...)
RECURSIVE Sorted(_)
Sorted(names) ==
    IF names = <<>> THEN <<>>
    ELSE InsertByKey(Sorted(SubSeq(names, 1, Len(names) - 1)), names[Len(names)])

----------------------------------------------------------------------------
(* The subtitle cleaner.                                                   *)

\* \d{2}:\d{2}:\d{2},\d{3} at position i: the position after it, or 0
StampEnd(s, i) ==
    IF /\ i + 11 <= Len(s)
       /\ \A k \in {0, 1, 3, 4, 6, 7, 9, 10, 11} : IsDigit(s[i + k])
       /\ s[i + 2] = ":"
       /\ s[i + 5] = ":"
       /\ s[i + 8] = ","
    THEN i + 12
    ELSE 0

\* \s* from position i: the position after the run of whitespace
RECURSIVE SkipSpace(_, _)
SkipSpace(s, i) ==
    IF i <= Len(s) /\ IsSpace(s[i]) THEN SkipSpace(s, i + 1) ELSE i

\* the end of the run of the character c that starts at i
RECURSIVE RunEndOf(_, _, _)
RunEndOf(s, i, c) ==
    IF i + 1 <= Len(s) /\ s[i + 1] = c THEN RunEndOf(s, i + 1, c) ELSE i

\* the timecode pattern at position i: the position after the match, or 0.
\* What follows each \s* is no whitespace, so the greedy match is the only one.
TimecodeEnd(s, i) ==
    LET a == StampEnd(s, i)
        b == IF a = 0 THEN 0 ELSE SkipSpace(s, a)
        c == IF /\ b # 0
                /\ b + 2 <= Len(s)
                /\ SubSeq(s, b, b + 2) = <<"-", "-", ">">>
             THEN SkipSpace(s, b + 3)
             ELSE 0
        d == IF c = 0 THEN 0 ELSE StampEnd(s, c)
    IN  IF d # 0 /\ d <= Len(s) /\ s[d] = "\n" THEN d + 1 ELSE 0

\* the leftmost of the positions where a pattern matches, or 0
FirstMatch(hits) ==
    IF hits = {} THEN 0 ELSE CHOOSE k \in hits : \A j \in hits : k <= j

\* re.sub(timecode, "", text), scanning from position i: the matches are taken
\* leftmost first and do not overlap
RECURSIVE SubTimecodes(_, _)
SubTimecodes(s, i) ==
    LET m == FirstMatch({k \in i..Len(s) : TimecodeEnd(s, k) # 0})
    IN  IF m = 0 THEN SubSeq(s, i, Len(s))
        ELSE SubSeq(s, i, m - 1) \o SubTimecodes(s, TimecodeEnd(s, m))

\* ^\d+\n at position i (re.MULTILINE): the position after the match, or 0
IndexLineEnd(s, i) ==
    IF /\ (i = 1 \/ s[i - 1] = "\n")
       /\ IsDigit(s[i])
    THEN LET e == RunEnd(s, i, TRUE)
         IN  IF e + 1 <= Len(s) /\ s[e + 1] = "\n" THEN e + 2 ELSE 0
    ELSE 0

\* re.sub(r"^\d+\n", "", text, flags=re.MULTILINE), scanning from position i
RECURSIVE SubIndexLines(_, _)
SubIndexLines(s, i) ==
    LET m == FirstMatch({k \in i..Len(s) : IndexLineEnd(s, k) # 0})
    IN  IF m = 0 THEN SubSeq(s, i, Len(s))
        ELSE SubSeq(s, i, m - 1) \o SubIndexLines(s, IndexLineEnd(s, m))

\* \n+ at position i: the position after the run of newlines, or 0
NewlinesEnd(s, i) == IF s[i] = "\n" THEN RunEndOf(s, i, "\n") + 1 ELSE 0

\* re.sub(r"\n+", "\n", text), scanning from position i
RECURSIVE SubNewlines(_, _)
SubNewlines(s, i) ==
    LET m == FirstMatch({k \in i..Len(s) : NewlinesEnd(s, k) # 0})
    IN  IF m = 0 THEN SubSeq(s, i, Len(s))
        ELSE SubSeq(s, i, m - 1) \o <<"\n">> \o SubNewlines(s, NewlinesEnd(s, m))

\* str.strip()
Strip(s) ==
    LET solid == {i \in DOMAIN s : ~IsSpace(s[i])}
    IN  IF solid = {} THEN <<>>
        ELSE SubSeq(s, CHOOSE i \in solid : \A j \in solid : i <= j,
                       CHOOSE i \in solid : \A j \in solid : i >= j)

\* the three substitutions and the strip of clean_subtitle
Clean(text) ==
    Strip(SubNewlines(SubIndexLines(SubTimecodes(text, 1), 1), 1))

\* clean_subtitle(file_path): a file that cannot be read or decoded raises inside
\* the try, which prints and returns ""
clean_subtitle(file) ==
    IF file.readable THEN [text |-> Clean(file.text), printed |-> <<>>]
    ELSE [text |-> <<>>, printed |-> <<"ERROR: Failed to clean subtitle file">>]

----------------------------------------------------------------------------
(* The file system a run reads.                                            *)

BASE_FOLDER == <<"B">>

SrtSuffix == <<".", "s", "r", "t">>

HtmlSuffix == <<".", "h", "t", "m", "l">>

Srt2 == <<"2">> \o SrtSuffix

Srt10 == <<"1", "0">> \o SrtSuffix

NotesHtml == <<"n">> \o HtmlSuffix

Section2 == <<"2">>

Section10 == <<"1", "0">>

SubName == <<"s">>

SectionNames == {Section2, Section10}

FilePool == {Srt2, Srt10, NotesHtml}

Timecode ==
    <<"0", "0", ":", "0", "0", ":", "0", "1", ",", "0", "0", "0", " ", "-", "-", ">",
      " ", "0", "0", ":", "0", "0", ":", "0", "2", ",", "0", "0", "0">>

\* one cue with the caption Hi
GoodText == <<"1", "\n">> \o Timecode \o <<"\n", "H", "i", "\n">>

\* one cue without a caption
BlankText == <<"1", "\n">> \o Timecode \o <<"\n", "\n">>

FileOfKind(kind) ==
    CASE kind = "good" -> [readable |-> TRUE, text |-> GoodText]
      [] kind = "blank" -> [readable |-> TRUE, text |-> BlankText]
      [] kind = "unreadable" -> [readable |-> FALSE, text |-> <<>>]

\* what the subtitle files of the course hold, by name: at most one of the two
\* names is a file that cleans to nothing or cannot be read
Libraries ==
    {[n \in {Srt2, Srt10} |-> IF n = bad THEN k ELSE "good"] :
        bad \in {Srt2, Srt10}, k \in {"good", "blank", "unreadable"}}

\* os.path.join
Join(a, b) == a \o <<"/">> \o b

\* os.path.basename
RECURSIVE Basename(_)
Basename(p) ==
    IF \A i \in DOMAIN p : p[i] # "/" THEN p
    ELSE Basename(Tail(p))

\* the sets of at most MaxEntries names of a pool
Entries(pool) == {e \in SUBSET pool : Cardinality(e) <= MaxEntries}

\* the orders os.listdir (or os.scandir) may give the names of a set in
Orders(S) ==
    {l \in [1..Cardinality(S) -> S] : \A i, j \in 1..Cardinality(S) : l[i] = l[j] => i = j}

Extend(f, g) == [x \in (DOMAIN f) \cup (DOMAIN g) |-> IF x \in DOMAIN f THEN f[x] ELSE g[x]]

\* the directory at path p with the entries e, of which the names in ds are
\* directories (their own entries are added apart) and the others files
DirAt(p, e, ds, lib) ==
    [dirs  |-> [x \in {p} |-> e],
     files |-> [x \in {Join(p, n) : n \in e \ ds} |->
                   LET n == Basename(x)
                   IN  IF n \in DOMAIN lib THEN FileOfKind(lib[n])
                       ELSE [readable |-> TRUE, text |-> <<>>]]]

Merge2(a, b) == [dirs |-> Extend(a.dirs, b.dirs), files |-> Extend(a.files, b.files)]

NoFiles == [dirs |-> <<>>, files |-> <<>>]

\* a course: the root's entries (the sections, and a subtitle file astray among
\* them), those of section 2 and its subdirectory s, and those of section 10
Course(kind, eRoot, e2, eSub, e10, lib) ==
    LET base == BASE_FOLDER
        p2 == Join(base, Section2)
        p10 == Join(base, Section10)
        tree == Merge2(DirAt(base, eRoot, SectionNames, lib),
                Merge2(IF Section2 \in eRoot THEN DirAt(p2, e2, {SubName}, lib) ELSE NoFiles,
                Merge2(IF Section2 \in eRoot /\ SubName \in e2
                           THEN DirAt(Join(p2, SubName), eSub, {}, lib) ELSE NoFiles,
                       IF Section10 \in eRoot THEN DirAt(p10, e10, {}, lib) ELSE NoFiles)))
    IN  IF kind = "missing" THEN [dirs |-> <<>>, files |-> <<>>, denied |-> {}]
        ELSE [dirs |-> tree.dirs, files |-> tree.files,
              denied |-> IF kind = "unlistable" THEN {base} ELSE {}]

Courses ==
    {Course("missing", {}, {}, {}, {}, <<>>), Course("unlistable", {}, {}, {}, {}, <<>>)}
    \cup
    UNION {UNION {UNION {UNION {
        {Course("dir", eRoot, e2, eSub, e10, lib) : lib \in Libraries}
        : eSub \in IF Section2 \in eRoot /\ SubName \in e2 THEN Entries(FilePool) ELSE {{}}}
        : e10 \in IF Section10 \in eRoot THEN Entries(FilePool) ELSE {{}}}
        : e2 \in IF Section2 \in eRoot THEN Entries(FilePool \cup {SubName}) ELSE {{}}}
        : eRoot \in Entries(SectionNames \cup {Srt2})}

IsDir(p) == p \in DOMAIN fs.dirs

Exists(p) == p \in DOMAIN fs.dirs \/ p \in DOMAIN fs.files

\* the results os.listdir(p) may give
ListDir(p) == Orders(fs.dirs[p])

\* the subdirectories of p, in an order os.scandir(p) may give them
SubDirs(p) == Orders({Join(p, n) : n \in {m \in fs.dirs[p] : IsDir(Join(p, m))}})

----------------------------------------------------------------------------
(* The run of main().                                                      *)

\* what sort_content(folder_content) may return and print: the names sorted,
\* or [] after the message of one of its two except clauses
sort_content(folder_content) ==
    IF ~Exists(folder_content)
    THEN {[names |-> <<>>, listed |-> <<>>,
           printed |-> <<"ERROR: Directory not found">>]}
    ELSE IF ~IsDir(folder_content) \/ folder_content \in fs.denied
    THEN {[names |-> <<>>, listed |-> <<>>,
           printed |-> <<"ERROR: Unexpected error while listing">>]}
    ELSE {[names |-> Sorted(l), listed |-> l, printed |-> <<>>] :
             l \in ListDir(folder_content)}

build_section_paths(base_dir, sections) ==
    [i \in DOMAIN sections |-> Join(base_dir, sections[i])]

Block(type, name, text) == [type |-> type, name |-> name, text |-> text]

\* the blocks appended after the loop over the files of a directory
ClosingBlocks(pending, name) ==
    (IF pending # <<>>
     THEN <<Block("DOC", <<>>, <<>>)>>
          \o [i \in DOMAIN pending |-> Block("LINK", pending[i], <<>>)]
     ELSE <<>>)
    \o <<Block("STOP", name, <<>>)>>

\* main, up to the call of merge_subtitles
Main ==
    /\ pc = "main"
    /\ \E r \in sort_content(BASE_FOLDER) :
          /\ subdirs' = r.names
          /\ console' = console \o r.printed
          /\ IF r.names # <<>>
             THEN /\ paths' = build_section_paths(BASE_FOLDER, r.names)
                  /\ pc' = "paths"
             ELSE /\ paths' = paths
                  /\ pc' = "done"
    /\ pathIdx' = 1
    /\ merged' = <<>>
    /\ links' = <<>>
    /\ UNCHANGED <<fs, written, walk, root, folder, sort_files, fileIdx, cleaned,
                   visited, cleanVars, sortVars>>

\* for path in paths: os.walk(path) yields nothing when path is no directory
NextPath ==
    /\ pc = "paths"
    /\ pathIdx <= Len(paths)
    /\ walk' = IF IsDir(paths[pathIdx]) THEN <<paths[pathIdx]>> ELSE <<>>
    /\ pc' = "walk"
    /\ UNCHANGED <<fs, console, written, subdirs, paths, pathIdx, root, folder,
                   sort_files, fileIdx, cleaned, merged, links, visited,
                   cleanVars, sortVars>>

\* os.walk yields a directory: the START marker and the sorted entries
StartFolder ==
    /\ pc = "walk"
    /\ walk # <<>>
    /\ LET top == Head(walk)
       IN  /\ root' = top
           /\ folder' = Basename(top)
           /\ visited' = Append(visited, top)
           /\ merged' = Append(merged, Block("START", Basename(top), <<>>))
           /\ \E r \in sort_content(top) :
                 /\ sort_files' = r.names
                 /\ console' = console \o r.printed
           /\ \E below \in SubDirs(top) : walk' = below \o Tail(walk)
    /\ fileIdx' = 1
    /\ pc' = "files"
    /\ UNCHANGED <<fs, written, subdirs, paths, pathIdx, cleaned, links,
                   cleanVars, sortVars>>

\* open(file_path) and f.read(): a path that is no file cannot be read
ReadFile(file_path) ==
    IF file_path \in DOMAIN fs.files THEN fs.files[file_path]
    ELSE [readable |-> FALSE, text |-> <<>>]

\* a mutant of ProcessSrt: the block is appended whatever the cleaner returned
ProcessSrtAlways ==
    /\ pc = "files"
    /\ fileIdx <= Len(sort_files)
    /\ EndsWith(sort_files[fileIdx], SrtSuffix)
    /\ LET file == sort_files[fileIdx]
           r == clean_subtitle(ReadFile(Join(root, file)))
       IN  /\ cleaned' = r.text
           /\ console' = console \o r.printed
           /\ merged' = Append(merged, Block("FILE", file, r.text))
    /\ fileIdx' = fileIdx + 1
    /\ UNCHANGED <<fs, pc, written, subdirs, paths, pathIdx, walk, root, folder,
                   sort_files, links, visited, cleanVars, sortVars>>

\* if file.endswith(".srt")
ProcessSrt ==
    /\ pc = "files"
    /\ fileIdx <= Len(sort_files)
    /\ EndsWith(sort_files[fileIdx], SrtSuffix)
    /\ LET file == sort_files[fileIdx]
           file_path == Join(root, file)
           r == clean_subtitle(ReadFile(file_path))
       IN  /\ cleaned' = r.text
           /\ console' = console \o r.printed
           /\ merged' = IF r.text # <<>>
                        THEN Append(merged, Block("FILE", file, r.text))
                        ELSE merged
    /\ fileIdx' = fileIdx + 1
    /\ UNCHANGED <<fs, pc, written, subdirs, paths, pathIdx, walk, root, folder,
                   sort_files, links, visited, cleanVars, sortVars>>

\* elif file.endswith(".html")
ProcessHtml ==
    /\ pc = "files"
    /\ fileIdx <= Len(sort_files)
    /\ ~EndsWith(sort_files[fileIdx], SrtSuffix)
    /\ EndsWith(sort_files[fileIdx], HtmlSuffix)
    /\ links' = Append(links, Join(root, sort_files[fileIdx]))
    /\ fileIdx' = fileIdx + 1
    /\ UNCHANGED <<fs, pc, console, written, subdirs, paths, pathIdx, walk, root,
                   folder, sort_files, cleaned, merged, visited, cleanVars, sortVars>>

\* else: pass
ProcessOther ==
    /\ pc = "files"
    /\ fileIdx <= Len(sort_files)
    /\ ~EndsWith(sort_files[fileIdx], SrtSuffix)
    /\ ~EndsWith(sort_files[fileIdx], HtmlSuffix)
    /\ fileIdx' = fileIdx + 1
    /\ UNCHANGED <<fs, pc, console, written, subdirs, paths, pathIdx, walk, root,
                   folder, sort_files, cleaned, merged, links, visited,
                   cleanVars, sortVars>>

\* a mutant of FinishFolder: the links buffer is not cleared
FinishFolderKeepLinks ==
    /\ pc = "files"
    /\ fileIdx > Len(sort_files)
    /\ merged' = merged \o ClosingBlocks(links, folder)
    /\ pc' = "walk"
    /\ UNCHANGED <<fs, console, written, subdirs, paths, pathIdx, walk, root,
                   folder, sort_files, fileIdx, cleaned, links, visited,
                   cleanVars, sortVars>>

\* a mutant of FinishFolder: the STOP marker names the section, not the directory
FinishFolderNamesSection ==
    /\ pc = "files"
    /\ fileIdx > Len(sort_files)
    /\ merged' = merged \o ClosingBlocks(links, Basename(paths[pathIdx]))
    /\ links' = <<>>
    /\ pc' = "walk"
    /\ UNCHANGED <<fs, console, written, subdirs, paths, pathIdx, walk, root,
                   folder, sort_files, fileIdx, cleaned, visited, cleanVars, sortVars>>

\* after the loop over the files: the documentation block, links.clear(), STOP
FinishFolder ==
    /\ pc = "files"
    /\ fileIdx > Len(sort_files)
    /\ merged' = merged \o ClosingBlocks(links, folder)
    /\ links' = <<>>
    /\ pc' = "walk"
    /\ UNCHANGED <<fs, console, written, subdirs, paths, pathIdx, walk, root,
                   folder, sort_files, fileIdx, cleaned, visited, cleanVars, sortVars>>

\* os.walk(path) is exhausted: the next path
EndWalk ==
    /\ pc = "walk"
    /\ walk = <<>>
    /\ pathIdx' = pathIdx + 1
    /\ pc' = "paths"
    /\ UNCHANGED <<fs, console, written, subdirs, paths, walk, root, folder,
                   sort_files, fileIdx, cleaned, merged, links, visited,
                   cleanVars, sortVars>>

\* return "\n".join(merged)
ReturnMerged ==
    /\ pc = "paths"
    /\ pathIdx > Len(paths)
    /\ pc' = "write"
    /\ UNCHANGED <<fs, console, written, subdirs, paths, pathIdx, walk, root,
                   folder, sort_files, fileIdx, cleaned, merged, links, visited,
                   cleanVars, sortVars>>

\* write_output(merged_content, OUTPUT_FILE). No block is the empty string, so the
\* joined content is empty exactly when merged is. open() or f.write() may raise.
write_output ==
    /\ pc = "write"
    /\ IF merged # <<>>
       THEN \E outcome \in {"ok", "open raises", "write raises"} :
               /\ written' = CASE outcome = "ok" -> "whole"
                               [] outcome = "open raises" -> "none"
                               [] outcome = "write raises" -> "part"
               /\ console' = Append(console,
                                 IF outcome = "ok" THEN "SUCCESS: Subtitles merged"
                                 ELSE "ERROR: Failed to write output file")
       ELSE /\ written' = written
            /\ console' = Append(console, "ERROR: No content to write")
    /\ pc' = "done"
    /\ UNCHANGED <<fs, subdirs, paths, pathIdx, walk, root, folder, sort_files,
                   fileIdx, cleaned, merged, links, visited, cleanVars, sortVars>>

Init ==
    /\ fs \in Courses
    /\ pc = "main"
    /\ console = <<>>
    /\ written = "none"
    /\ subdirs = <<>>
    /\ paths = <<>>
    /\ pathIdx = 1
    /\ walk = <<>>
    /\ root = <<>>
    /\ folder = <<>>
    /\ sort_files = <<>>
    /\ fileIdx = 1
    /\ cleaned = <<>>
    /\ merged = <<>>
    /\ links = <<>>
    /\ visited = <<>>
    /\ content = <<>>
    /\ cues = <<>>
    /\ once = <<>>
    /\ twice = <<>>
    /\ listing = <<>>
    /\ ordered = <<>>

Next ==
    \/ Main
    \/ NextPath
    \/ StartFolder
    \/ ProcessSrt
    \/ ProcessHtml
    \/ ProcessOther
    \/ FinishFolder
    \/ EndWalk
    \/ ReturnMerged
    \/ write_output

Spec == Init /\ [][Next]_vars

----------------------------------------------------------------------------
(* A run of the cleaner alone on a bounded text, and on its own output.    *)

Pieces == {<<"1">>, <<"\n">>, <<" ">>, <<"a">>, Timecode}

RECURSIVE Concat(_)
Concat(ss) == IF ss = <<>> THEN <<>> ELSE Head(ss) \o Concat(Tail(ss))

RawTexts == {Concat(ps) : ps \in UNION {[1..n -> Pieces] : n \in 0..MaxPieces}}

CaptionLines == {<<"H", "i">>, <<"4", "2">>, <<"a", " ", "b">>}

\* a cue is its caption lines; its sequence number is its position
CueLists ==
    LET cue == UNION {[1..n -> CaptionLines] : n \in 1..MaxLines}
    IN  UNION {[1..n -> cue] : n \in 1..MaxCues}

\* <seq>\n<start> --> <end>\n<text lines>\n\n
RenderCue(i, lines) ==
    <<DigitChars[i + 1], "\n">> \o Timecode \o <<"\n">>
    \o Concat([k \in DOMAIN lines |-> lines[k] \o <<"\n">>]) \o <<"\n">>

RenderCues(cs) == Concat([i \in DOMAIN cs |-> RenderCue(i, cs[i])])

InitClean ==
    /\ \/ /\ cues = <<>>
          /\ content \in RawTexts
       \/ /\ cues \in CueLists
          /\ content = RenderCues(cues)
    /\ pc = "clean"
    /\ once = <<>>
    /\ twice = <<>>
    /\ fs = Course("missing", {}, {}, {}, {}, <<>>)
    /\ console = <<>>
    /\ written = "none"
    /\ subdirs = <<>>
    /\ paths = <<>>
    /\ pathIdx = 1
    /\ walk = <<>>
    /\ root = <<>>
    /\ folder = <<>>
    /\ sort_files = <<>>
    /\ fileIdx = 1
    /\ cleaned = <<>>
    /\ merged = <<>>
    /\ links = <<>>
    /\ visited = <<>>
    /\ listing = <<>>
    /\ ordered = <<>>

\* clean_subtitle on a file that holds content
CleanOnce ==
    /\ pc = "clean"
    /\ once' = clean_subtitle([readable |-> TRUE, text |-> content]).text
    /\ pc' = "cleaned"
    /\ UNCHANGED <<mergeVars, sortVars, content, cues, twice>>

\* clean_subtitle on a file that holds the output of the first run
CleanTwice ==
    /\ pc = "cleaned"
    /\ twice' = clean_subtitle([readable |-> TRUE, text |-> once]).text
    /\ pc' = "recleaned"
    /\ UNCHANGED <<mergeVars, sortVars, content, cues, once>>

NextClean ==
    \/ CleanOnce
    \/ CleanTwice

SpecClean == InitClean /\ [][NextClean]_vars

----------------------------------------------------------------------------
(* A run of the sorter alone on one directory.                             *)

Topic == <<".", " ", "T", "o", "p", "i", "c">>

Topic1 == <<"1">> \o Topic

Topic2 == <<"2">> \o Topic

Topic10 == <<"1", "0">> \o Topic

Alpha == <<"a", "l", "p", "h", "a">>

Bravo == <<"B", "r", "a", "v", "o">>

Part9 == <<"p", "9", "b">>

Part10 == <<"P", "1", "0", "a">>

NamePool == {Topic1, Topic2, Topic10, Alpha, Bravo, Part9, Part10}

InitSort ==
    /\ fs \in {Course("missing", {}, {}, {}, {}, <<>>)}
              \cup {[dirs |-> [x \in {BASE_FOLDER} |-> e], files |-> <<>>, denied |-> {}] :
                       e \in {n \in SUBSET NamePool : Cardinality(n) <= MaxNames}}
    /\ pc = "sort"
    /\ listing = <<>>
    /\ ordered = <<>>
    /\ console = <<>>
    /\ written = "none"
    /\ subdirs = <<>>
    /\ paths = <<>>
    /\ pathIdx = 1
    /\ walk = <<>>
    /\ root = <<>>
    /\ folder = <<>>
    /\ sort_files = <<>>
    /\ fileIdx = 1
    /\ cleaned = <<>>
    /\ merged = <<>>
    /\ links = <<>>
    /\ visited = <<>>
    /\ content = <<>>
    /\ cues = <<>>
    /\ once = <<>>
    /\ twice = <<>>

\* sort_content(BASE_FOLDER)
SortRun ==
    /\ pc = "sort"
    /\ \E r \in sort_content(BASE_FOLDER) :
          /\ listing' = r.listed
          /\ ordered' = r.names
          /\ console' = console \o r.printed
    /\ pc' = "sorted"
    /\ UNCHANGED <<fs, written, subdirs, paths, pathIdx, walk, root, folder,
                   sort_files, fileIdx, cleaned, merged, links, visited, cleanVars>>

NextSort == SortRun

SpecSort == InitSort /\ [][NextSort]_vars

----------------------------------------------------------------------------
(* What the claims speak of.                                               *)

Count(blocks, type) == Cardinality({k \in DOMAIN blocks : blocks[k].type = type})

\* the blocks read from the left: the START markers not yet closed, and whether
\* every STOP marker so far named the last of them
RECURSIVE Nesting(_)
Nesting(blocks) ==
    IF blocks = <<>> THEN [ok |-> TRUE, open |-> <<>>]
    ELSE LET before == Nesting(SubSeq(blocks, 1, Len(blocks) - 1))
             b == blocks[Len(blocks)]
         IN  CASE b.type = "START" -> [ok |-> before.ok, open |-> Append(before.open, b.name)]
               [] b.type = "STOP" ->
                    IF before.open # <<>> /\ before.open[Len(before.open)] = b.name
                    THEN [ok |-> before.ok,
                          open |-> SubSeq(before.open, 1, Len(before.open) - 1)]
                    ELSE [ok |-> FALSE, open |-> before.open]
               [] OTHER -> before

\* the position of the i-th START marker of merged
StartAt(i) ==
    CHOOSE k \in DOMAIN merged :
        /\ merged[k].type = "START"
        /\ Count(SubSeq(merged, 1, k), "START") = i

\* the blocks of the i-th directory visited: from its START marker up to the next
Segment(i) ==
    SubSeq(merged, StartAt(i),
           IF i < Count(merged, "START") THEN StartAt(i + 1) - 1 ELSE Len(merged))

\* the i-th directory visited has been closed
Closed(i) == i < Len(visited) \/ pc # "files"

NamesOf(blocks, type) == {blocks[k].name : k \in {j \in DOMAIN blocks : blocks[j].type = type}}

SrtOf(d) == {n \in fs.dirs[d] : EndsWith(n, SrtSuffix)}

HtmlOf(d) == {n \in fs.dirs[d] : ~EndsWith(n, SrtSuffix) /\ EndsWith(n, HtmlSuffix)}

\* the natural order of two names, stated on the names themselves: run by run, a
\* run of digits by its value, a run of other characters without regard to case;
\* the name that ends first, or that has digits where the other has none, is first
RECURSIVE NaturalLess(_, _)
NaturalLess(a, b) ==
    IF b = <<>> THEN FALSE
    ELSE IF a = <<>> THEN TRUE
    ELSE IF IsDigit(a[1]) # IsDigit(b[1]) THEN IsDigit(a[1])
    ELSE LET ea == RunEnd(a, 1, IsDigit(a[1]))
             eb == RunEnd(b, 1, IsDigit(b[1]))
             ra == SubSeq(a, 1, ea)
             rb == SubSeq(b, 1, eb)
             resta == SubSeq(a, ea + 1, Len(a))
             restb == SubSeq(b, eb + 1, Len(b))
         IN  IF IsDigit(a[1])
             THEN IF IntOf(ra) # IntOf(rb) THEN IntOf(ra) < IntOf(rb)
                  ELSE NaturalLess(resta, restb)
             ELSE IF Lower(ra) # Lower(rb) THEN StrLess(Lower(ra), Lower(rb))
                  ELSE NaturalLess(resta, restb)

InNaturalOrder(names) ==
    \A i, j \in DOMAIN names : i < j => ~NaturalLess(names[j], names[i])

\* the cleaner leaves a text in the file at path
CleansToText(path) ==
    LET f == ReadFile(path) IN f.readable /\ Clean(f.text) # <<>>

\* HH:MM:SS,mmm --> HH:MM:SS,mmm at the start of a line, whatever follows it
IsTimecodeLine(line) ==
    LET a == StampEnd(line, 1)
        b == IF a = 0 THEN 0 ELSE SkipSpace(line, a)
        c == IF b # 0 /\ b + 2 <= Len(line) /\ SubSeq(line, b, b + 2) = <<"-", "-", ">">>
             THEN SkipSpace(line, b + 3) ELSE 0
    IN  c # 0 /\ StampEnd(line, c) # 0

\* the lines of a text, as str.split("\n") gives them
RECURSIVE Lines(_)
Lines(s) ==
    IF \A i \in DOMAIN s : s[i] # "\n" THEN <<s>>
    ELSE LET n == CHOOSE i \in DOMAIN s :
                      s[i] = "\n" /\ \A j \in 1..(i - 1) : s[j] # "\n"
         IN  <<SubSeq(s, 1, n - 1)>> \o Lines(SubSeq(s, n + 1, Len(s)))

IsIndexLine(line) == line # <<>> /\ \A k \in DOMAIN line : IsDigit(line[k])

----------------------------------------------------------------------------
(* The claims.                                                             *)

\* C1. Marker balance: every STOP FOLDER marker names the directory of the last
\* START FOLDER marker not yet closed, and whenever no directory is being
\* processed (so also at the end of merge_subtitles) every START marker is closed:
\* there are as many STOP markers as START markers.
C1_MarkerBalance ==
    /\ Nesting(merged).ok
    /\ pc \in {"paths", "walk", "write", "done"} =>
          /\ Nesting(merged).open = <<>>
          /\ Count(merged, "START") = Count(merged, "STOP")
    /\ pc = "files" => Nesting(merged).open = <<folder>>

\* C1 happens: a run over two sections, one with a subdirectory, has ended
C1_Witness ==
    /\ pc = "done"
    /\ Count(merged, "START") = 3
    /\ Count(merged, "STOP") = 3
    /\ Join(Join(BASE_FOLDER, Section2), SubName) \in Range(visited)

\* C2. Cleaner idempotence: cleaning the cleaner's output changes nothing.
C2_Idempotent == pc = "recleaned" => twice = once

\* C3. Timecode removal: no line of the cleaner's output is a timecode range line,
\* be the range followed by styling text or not.
C3_NoTimecodeLine ==
    pc = "cleaned" => \A k \in DOMAIN Lines(once) : ~IsTimecodeLine(Lines(once)[k])

\* C4. Sequence-number removal: no line of the cleaner's output is made only of
\* digits, the last line of a text without a trailing newline included.
C4_NoIndexLine ==
    pc = "cleaned" => \A k \in DOMAIN Lines(once) : ~IsIndexLine(Lines(once)[k])

\* C5. Caption text preservation: the output for a well-formed subtitle text is
\* the caption lines of its cues, unchanged and in order, whatever they hold.
C5_CaptionsKept ==
    (pc = "cleaned" /\ cues # <<>>) => Lines(once) = Concat(cues)

\* C6. Natural order: sort_content returns the entry names of the directory, each
\* once, in natural order: a name with the smaller leading number is first, and
\* alpha is before Bravo.
C6_NaturalOrder ==
    (pc = "sorted" /\ IsDir(BASE_FOLDER)) =>
        /\ Len(ordered) = Cardinality(fs.dirs[BASE_FOLDER])
        /\ Range(ordered) = fs.dirs[BASE_FOLDER]
        /\ InNaturalOrder(ordered)
        /\ \A i, j \in DOMAIN ordered :
              LET x == ordered[i]
                  y == ordered[j]
                  ex == RunEnd(x, 1, TRUE)
                  ey == RunEnd(y, 1, TRUE)
              IN  (/\ IsDigit(x[1])
                   /\ IsDigit(y[1])
                   /\ SubSeq(x, ex + 1, Len(x)) = SubSeq(y, ey + 1, Len(y))
                   /\ IntOf(SubSeq(x, 1, ex)) < IntOf(SubSeq(y, 1, ey))) => i < j
        /\ \A i, j \in DOMAIN ordered : (ordered[i] = Alpha /\ ordered[j] = Bravo) => i < j

\* C6 happens: 2. Topic, 10. Topic, 1. Topic were listed and came out 1., 2., 10.
C6_Witness ==
    /\ pc = "sorted"
    /\ listing = <<Topic2, Topic10, Topic1>>
    /\ ordered = <<Topic1, Topic2, Topic10>>

\* C7. Total failure reporting: a run whose course root does not exist, or has no
\* entries, ends with no output file and exactly one line printed.
C7_OneDiagnostic ==
    (/\ pc = "done"
     /\ (~Exists(BASE_FOLDER) \/ (IsDir(BASE_FOLDER) /\ BASE_FOLDER \notin fs.denied
                                   /\ fs.dirs[BASE_FOLDER] = {})))
    => (written = "none" /\ Len(console) = 1)

\* C8. Skip-empty-cleaned: the FILE blocks of a directory are those of its .srt
\* entries reached so far whose cleaned text is not empty, one each, with that
\* text; an entry that cannot be read or cleans to nothing adds no block and does
\* not stop the entries after it.
C8_SkipEmptyCleaned ==
    \A i \in DOMAIN visited :
        LET d == visited[i]
            seg == Segment(i)
            reached == IF Closed(i) THEN fs.dirs[d]
                       ELSE Range(SubSeq(sort_files, 1, fileIdx - 1))
        IN  /\ \A k \in DOMAIN seg :
                  seg[k].type = "FILE" =>
                      /\ seg[k].text # <<>>
                      /\ seg[k].text = Clean(ReadFile(Join(d, seg[k].name)).text)
            /\ NamesOf(seg, "FILE") =
                  {n \in reached : EndsWith(n, SrtSuffix) /\ CleansToText(Join(d, n))}
            /\ Count(seg, "FILE") = Cardinality(NamesOf(seg, "FILE"))

\* C8 happens: the first subtitle file of a directory could not be read, or
\* cleaned to nothing, and the one after it got its block
C8_Witness ==
    /\ pc = "done"
    /\ \E i \in DOMAIN visited :
          /\ {Srt2, Srt10} \subseteq fs.dirs[visited[i]]
          /\ ~CleansToText(Join(visited[i], Srt2))
          /\ NamesOf(Segment(i), "FILE") = {Srt10}

\* C9. Block order within a directory: the START marker, the FILE blocks of .srt
\* entries in natural order, then the WEB DOCUMENTATION block with the paths of the
\* .html entries if and only if there is such an entry, then the STOP marker.
C9_BlockOrder ==
    \A i \in DOMAIN visited :
        LET d == visited[i]
            seg == Segment(i)
            nFile == Count(seg, "FILE")
            nLink == Count(seg, "LINK")
            fileNames == [k \in 1..nFile |-> seg[k + 1].name]
        IN  /\ seg[1] = Block("START", Basename(d), <<>>)
            /\ Len(seg) >= 1 + nFile
            /\ \A k \in 2..(1 + nFile) : seg[k].type = "FILE"
            /\ Range(fileNames) \subseteq SrtOf(d)
            /\ InNaturalOrder(fileNames)
            /\ Closed(i) =>
                  /\ seg[Len(seg)] = Block("STOP", Basename(d), <<>>)
                  /\ IF HtmlOf(d) = {}
                     THEN Len(seg) = 2 + nFile
                     ELSE /\ Len(seg) = 3 + nFile + nLink
                          /\ seg[2 + nFile].type = "DOC"
                          /\ \A k \in (3 + nFile)..(2 + nFile + nLink) : seg[k].type = "LINK"
                          /\ nLink = Cardinality(HtmlOf(d))
                          /\ NamesOf(seg, "LINK") = {Join(d, n) : n \in HtmlOf(d)}
            /\ ~Closed(i) => Len(seg) = 1 + nFile

\* C9 happens: a directory with both subtitle files and a documentation file was
\* closed, both files having their blocks
C9_Witness ==
    /\ pc = "done"
    /\ \E i \in DOMAIN visited :
          /\ Len(Segment(i)) = 6
          /\ Segment(i)[2].name = Srt2
          /\ Segment(i)[3].name = Srt10
          /\ Segment(i)[4].type = "DOC"

\* C10. Links buffer isolation: the pending links buffer is empty whenever the
\* processing of a directory begins, and the WEB DOCUMENTATION block of a directory
\* lists the .html entries of that directory and no other path.
C10_LinksIsolated ==
    /\ (pc \in {"paths", "walk", "write", "done"} \/ (pc = "files" /\ fileIdx = 1)) =>
          links = <<>>
    /\ pc = "files" => Range(links) \subseteq {Join(root, n) : n \in HtmlOf(root)}
    /\ \A i \in DOMAIN visited :
          /\ NamesOf(Segment(i), "LINK") \subseteq {Join(visited[i], n) : n \in HtmlOf(visited[i])}
          /\ Closed(i) => Count(Segment(i), "LINK") = Cardinality(HtmlOf(visited[i]))

\* C10 happens: a directory with a documentation file begins after another one,
\* of the same section, whose documentation block was emitted
C10_Witness ==
    /\ pc = "files"
    /\ fileIdx = 1
    /\ Len(visited) = 2
    /\ Count(merged, "LINK") = 1
    /\ HtmlOf(root) # {}
    /\ root = Join(visited[1], SubName)

====
